---------------------------- MODULE Spec2Model ----------------------------
(***************************************************************************)
(* A model of ginprom, the Prometheus instrumentation middleware for gin   *)
(* (src/main.go, package ginprom) together with the wiring of package main.*)
(*                                                                         *)
(* Strings are sequences of one-character strings, so that len(s) is       *)
(* Len(s) and the regular-expression matcher can index them.               *)
(***************************************************************************)
EXTENDS Integers, Sequences, FiniteSets, Bags, TLC

(***************************************************************************)
(* Bounds of the model.                                                    *)
(***************************************************************************)
\* Number of requests served in one behaviour.
MaxReq == 2
\* Number of ticker intervals (seconds) that elapse in one behaviour.
MaxTicks == 2
\* Width in bits of Go's int / int64 in the model (64 in the build; scaled
\* down so that the model checker's integers can hold 2^IntBits).
IntBits == 12

\* A nil function value.
Nil == "nil"
\* A pointer is the empty sequence (nil) or the one-element sequence of what
\* it points to.
NilPtr == <<>>
Ptr(x) == <<x>>
Deref(p) == p[1]

(***************************************************************************)
(* String literals of the program and of the requests it serves.           *)
(***************************************************************************)
Empty == <<>>
GET == <<"G", "E", "T">>
POST == <<"P", "O", "S", "T">>
PathIndex == <<"/", "i", "n", "d", "e", "x">>
PathBad == <<"/", "b", "a", "d">>
PathMetrics == <<"/", "m", "e", "t", "r", "i", "c", "s">>
PathApi == <<"/", "a", "p", "i">>
ProtoHTTP11 == <<"H", "T", "T", "P", "/", "1", ".", "1">>
HostLocal == <<"h", ":", "8", "0">>

Digits == <<"0", "1", "2", "3", "4", "5", "6", "7", "8", "9">>
DigitSet == {Digits[i] : i \in 1..10}

(***************************************************************************)
(* strconv.Itoa: the decimal string of an integer.                         *)
(***************************************************************************)
RECURSIVE ItoaNat(_)
ItoaNat(n) ==
    IF n < 10 THEN <<Digits[n + 1]>>
    ELSE ItoaNat(n \div 10) \o <<Digits[(n % 10) + 1]>>

Itoa(n) == IF n < 0 THEN <<"-">> \o ItoaNat(0 - n) ELSE ItoaNat(n)

(***************************************************************************)
(* Go's fixed-width signed integers: the value of x wrapped to IntBits     *)
(* bits in two's complement.                                               *)
(***************************************************************************)
MaxInt == 2 ^ (IntBits - 1) - 1

WrapInt(x) ==
    LET m == 2 ^ IntBits
        u == x % m
    IN  IF u > MaxInt THEN u - m ELSE u

(***************************************************************************)
(* regexp: the subset of RE2 syntax with literals, '.', '\d', '^', '$'     *)
(* and the postfix '*'.  regexpCompile parses a pattern into a sequence of *)
(* items or reports an error; the errors of the subset are a repetition    *)
(* operator with no argument ("*a"), a nested repetition ("a**") and a     *)
(* trailing backslash.                                                     *)
(***************************************************************************)
RegexItem(kind, ch) == [kind |-> kind, ch |-> ch, star |-> FALSE]

RECURSIVE regexpParse(_, _, _)
regexpParse(p, i, items) ==
    IF i > Len(p) THEN [err |-> FALSE, prog |-> items]
    ELSE
      CASE p[i] = "\\" ->
             IF i = Len(p) THEN [err |-> TRUE, prog |-> <<>>]
             ELSE IF p[i + 1] = "d"
                  THEN regexpParse(p, i + 2, Append(items, RegexItem("digit", "")))
                  ELSE regexpParse(p, i + 2, Append(items, RegexItem("lit", p[i + 1])))
        [] p[i] = "*" ->
             IF items = <<>> \/ items[Len(items)].star
             THEN [err |-> TRUE, prog |-> <<>>]
             ELSE regexpParse(p, i + 1,
                              [items EXCEPT ![Len(items)].star = TRUE])
        [] p[i] = "^" -> regexpParse(p, i + 1, Append(items, RegexItem("bol", "")))
        [] p[i] = "$" -> regexpParse(p, i + 1, Append(items, RegexItem("eol", "")))
        [] p[i] = "." -> regexpParse(p, i + 1, Append(items, RegexItem("any", "")))
        [] OTHER -> regexpParse(p, i + 1, Append(items, RegexItem("lit", p[i])))

regexpCompile(p) == regexpParse(p, 1, <<>>)

\* Whether a one-character item accepts character c.
ItemAccepts(item, c) ==
    CASE item.kind = "lit" -> c = item.ch
      [] item.kind = "digit" -> c \in DigitSet
      [] item.kind = "any" -> TRUE
      [] OTHER -> FALSE

\* Whether prog[i..] matches a prefix of s[j..].
RECURSIVE regexpMatchHere(_, _, _, _)
regexpMatchHere(prog, i, s, j) ==
    IF i > Len(prog) THEN TRUE
    ELSE
      LET item == prog[i] IN
      IF item.star
      THEN \/ regexpMatchHere(prog, i + 1, s, j)
           \/ /\ j <= Len(s)
              /\ ItemAccepts(item, s[j])
              /\ regexpMatchHere(prog, i, s, j + 1)
      ELSE CASE item.kind = "bol" -> j = 1 /\ regexpMatchHere(prog, i + 1, s, j)
             [] item.kind = "eol" ->
                  j = Len(s) + 1 /\ regexpMatchHere(prog, i + 1, s, j)
             [] OTHER ->
                  /\ j <= Len(s)
                  /\ ItemAccepts(item, s[j])
                  /\ regexpMatchHere(prog, i + 1, s, j + 1)

(***************************************************************************)
(* regexp.MatchString(pattern, s): whether s contains any match of the     *)
(* pattern (an unanchored search), with the compile error if there is one. *)
(***************************************************************************)
regexpMatchString(pattern, s) ==
    LET re == regexpCompile(pattern) IN
    IF re.err THEN [matched |-> FALSE, err |-> TRUE]
    ELSE [matched |-> \E j \in 1..(Len(s) + 1) : regexpMatchHere(re.prog, 1, s, j),
          err |-> FALSE]

(***************************************************************************)
(* PromOpts.checkLabel                                                     *)
(***************************************************************************)

checkLabelNoEmptyGuard(label, pattern) ==
    LET m == regexpMatchString(pattern, label) IN
    IF m.err THEN TRUE ELSE ~m.matched

checkLabelFailClosed(label, pattern) ==
    IF pattern = Empty THEN TRUE
    ELSE LET m == regexpMatchString(pattern, label) IN
         IF m.err THEN FALSE ELSE ~m.matched

checkLabel(label, pattern) ==
    IF pattern = Empty THEN TRUE
    ELSE LET m == regexpMatchString(pattern, label) IN
         IF m.err THEN TRUE ELSE ~m.matched


(***************************************************************************)
(* float64(x) for a Go int: exact while x fits the mantissa, rounded to    *)
(* the nearest representable value (ties to even) beyond it.  The mantissa *)
(* is scaled with IntBits (53 of 64 bits in the build).                    *)
(***************************************************************************)
FloatMantBits == IntBits - 2

RECURSIVE BitLen(_)
BitLen(n) == IF n = 0 THEN 0 ELSE 1 + BitLen(n \div 2)

Float64(x) ==
    LET a == IF x < 0 THEN 0 - x ELSE x
        e == BitLen(a) - FloatMantBits
    IN  IF e <= 0 THEN x
        ELSE LET unit == 2 ^ e
                 lo == (a \div unit) * unit
                 rem == a - lo
                 up == \/ 2 * rem > unit
                       \/ 2 * rem = unit /\ (a \div unit) % 2 = 1
                 r == IF up THEN lo + unit ELSE lo
             IN  IF x < 0 THEN 0 - r ELSE r

(***************************************************************************)
(* calcRequestSize.  A request is a record with the fields of http.Request *)
(* the function reads; Header is a sequence of [name, values] entries, one *)
(* per key of the map.  The only use of r.URL is r.URL.String() on a nil   *)
(* r.URL, a nil-pointer dereference: the result is then a panic.           *)
(***************************************************************************)
RECURSIVE SumLen(_)
SumLen(strs) ==
    IF strs = <<>> THEN 0 ELSE Len(Head(strs)) + SumLen(Tail(strs))

RECURSIVE HeaderSize(_)
HeaderSize(h) ==
    IF h = <<>> THEN 0
    ELSE Len(Head(h).name) + SumLen(Head(h).values) + HeaderSize(Tail(h))


calcRequestSize(r) ==
    IF r.URL = NilPtr THEN [panic |-> TRUE, size |-> 0]
    ELSE LET s1 == WrapInt(0 + Len(r.Method))
             s2 == WrapInt(s1 + Len(r.Proto))
             s3 == WrapInt(s2 + HeaderSize(r.Header))
             s4 == WrapInt(s3 + Len(r.Host))
             s5 == IF r.ContentLength # -1
                   THEN WrapInt(s4 + r.ContentLength)
                   ELSE s4
         IN  [panic |-> FALSE, size |-> Float64(s5)]

(***************************************************************************)
(* PromOpts, NewDefaultOpts and the set-up part of PromMiddleware.         *)
(* EndpointLabelMappingFn is Nil, "URLPath" (the closure returning         *)
(* c.Request.URL.Path) or "Template" (a mapping supplied by the operator,  *)
(* here one that maps every request to the route group /api).              *)
(***************************************************************************)
PromOpts(s, e, m, fn) ==
    [ExcludeRegexStatus |-> s, ExcludeRegexEndpoint |-> e,
     ExcludeRegexMethod |-> m, EndpointLabelMappingFn |-> fn]

NewDefaultOptsTemplate == PromOpts(Empty, Empty, Empty, "Template")

NewDefaultOpts == PromOpts(Empty, Empty, Empty, "URLPath")

PromMiddlewareOpts(arg) ==
    LET promOpts1 == IF arg = NilPtr THEN NewDefaultOpts ELSE Deref(arg) IN
    IF promOpts1.EndpointLabelMappingFn = Nil
    THEN [promOpts1 EXCEPT !.EndpointLabelMappingFn = "URLPath"]
    ELSE promOpts1

EndpointLabelMapping(fn, r) ==
    CASE fn = "URLPath" -> Deref(r.URL).Path
      [] fn = "Template" -> PathApi

(***************************************************************************)
(* The metric vectors.  A vector maps the label-value tuples for which a   *)
(* child exists to the child's state: a number for a counter, the bag of   *)
(* observed values for a histogram or summary.  WithLabelValues creates    *)
(* the child on first use; Inc and Observe are atomic.                     *)
(***************************************************************************)
NoChildren == <<>>

CounterIncLost(vec, lvs) == (lvs :> 1) @@ vec

CounterIncByEndpoint(vec, lvs) ==
    LET key == IF Len(lvs) = 3 THEN <<Empty, lvs[2], Empty>> ELSE lvs IN
    IF key \in DOMAIN vec
    THEN [vec EXCEPT ![key] = @ + 1]
    ELSE (key :> 1) @@ vec

CounterInc(vec, lvs) ==
    IF lvs \in DOMAIN vec
    THEN [vec EXCEPT ![lvs] = @ + 1]
    ELSE (lvs :> 1) @@ vec

ObserveForgetsOthers(vec, lvs, v) ==
    IF lvs \in DOMAIN vec
    THEN (lvs :> (vec[lvs] (+) SetToBag({v})))
    ELSE (lvs :> SetToBag({v}))

Observe(vec, lvs, v) ==
    IF lvs \in DOMAIN vec
    THEN [vec EXCEPT ![lvs] = @ (+) SetToBag({v})]
    ELSE (lvs :> SetToBag({v})) @@ vec

CounterValue(vec, lvs) == IF lvs \in DOMAIN vec THEN vec[lvs] ELSE 0

Observations(vec, lvs) == IF lvs \in DOMAIN vec THEN vec[lvs] ELSE EmptyBag

ObservationCount(vec, lvs) == BagCardinality(Observations(vec, lvs))

(***************************************************************************)
(* The requests, the downstream outcomes and the option values of the model.*)
(***************************************************************************)
HeaderAccept ==
    << [name |-> <<"A", "c", "c", "e", "p", "t">>,
        values |-> << <<"*", "/", "*">> >>] >>

HeaderTwo ==
    HeaderAccept \o << [name |-> <<"X">>, values |-> << <<"a">>, <<"b", "c">> >>] >>

HttpRequest(method, url, header, host, contentLength) ==
    [Method |-> method, URL |-> url, Proto |-> ProtoHTTP11, Header |-> header,
     Host |-> host, ContentLength |-> contentLength]

\* The requests the server receives; r.URL is never nil for them.  A request
\* in flight is held in the state as its index in this list.
Requests ==
    << HttpRequest(GET, Ptr([Path |-> PathIndex]), HeaderAccept, HostLocal, 0),
       HttpRequest(GET, Ptr([Path |-> PathBad]), HeaderAccept, HostLocal, 0),
       HttpRequest(POST, Ptr([Path |-> PathIndex]), HeaderAccept, HostLocal, 5),
       HttpRequest(GET, Ptr([Path |-> PathMetrics]), HeaderAccept, HostLocal, 0) >>

\* The scrapes of the exposition endpoint, and the requests of the other
\* routes.
IsScrape(q) == Deref(q.URL).Path = PathMetrics
AppRoutes == {i \in DOMAIN Requests : ~IsScrape(Requests[i])}

\* What downstream handling of request q can leave behind when c.Next()
\* returns: in c.Writer the status and the number of bytes written (-1:
\* nothing written, 0: header only), and on the clock the whole seconds it
\* took.  The handlers are those of an application with two routes, each
\* answering 200 with a body or aborting with a 4xx status; the exposition
\* endpoint answers 200 with the exposition text, whose length is kept as a
\* positive number.
Outcomes(q) ==
    IF IsScrape(q)
    THEN { [status |-> 200, size |-> 5, elapsed |-> 0] }
    ELSE IF Deref(q.URL).Path = PathIndex
    THEN { [status |-> 200, size |-> 5, elapsed |-> 1],
           [status |-> 403, size |-> -1, elapsed |-> 0] }
    ELSE { [status |-> 200, size |-> 5, elapsed |-> 1],
           [status |-> 400, size |-> 0, elapsed |-> 0] }

Pattern4xx == <<"^", "4", "\\", "d", "\\", "d", "$">>
PatternStarFirst == <<"*", "4">>
PatternTrailingBackslash == <<"4", "\\">>
PatternNestedStar == <<"4", "*", "*">>
PatternBadPath == <<"^", "/", "b", "a", "d", "$">>
PatternAnything == <<".", "*">>

\* The argument of PromMiddleware: nil, or a *PromOpts.
OptsArgs ==
    { NilPtr,
      Ptr(PromOpts(Pattern4xx, Empty, POST, "Template")),
      Ptr(PromOpts(PatternStarFirst, PatternBadPath, Pattern4xx, Nil)) }

ReqIds == 1..MaxReq

(***************************************************************************)
(* The state.                                                              *)
(***************************************************************************)
VARIABLES
    optsArg,        \* the argument PromMiddleware was called with
    promOpts,       \* the options the returned handler closes over
    uptime,         \* the metric vectors of the package
    reqCount,
    reqDuration,
    reqSizeBytes,
    respSizeBytes,
    now,            \* ticker intervals (seconds) elapsed since start
    tickChan,       \* ticks buffered in the channel of time.Tick (capacity 1)
    ticked,         \* history: iterations of the loop of recordUpTime
    pc,             \* per request: where the handler is
    request,        \* per request: c.Request, as an index in Requests
                    \* (0 before the request has arrived)
    start,          \* per request: the local start, as a reading of the
                    \* request's own clock
    clock,          \* per request: time.Now(), in whole seconds since the
                    \* handler was entered
    writer,         \* per request: c.Writer's status and size
    lvs,            \* per request: the local lvs
    ok,             \* per request: the local ok
    respSize,       \* per request: the local respSize
    body,           \* per request: what the exposition handler wrote, for a
                    \* scrape (the series as gathered), else NoBody
    fault,          \* per request: the panics propagating out of the handler
    call            \* the function call of the single-function specifications

cfgVars == <<optsArg, promOpts>>
reqSeries == <<reqCount, reqDuration, reqSizeBytes, respSizeBytes>>
tickVars == <<now, tickChan, ticked>>
ctxVars == <<pc, request, start, clock, writer, lvs, ok, respSize>>
srvVars == <<body, fault>>
vars == <<cfgVars, uptime, reqSeries, tickVars, ctxVars, srvVars, call>>

NoBody == <<>>
NoFault == <<>>

NoCall == [fn |-> "none"]

(***************************************************************************)
(* The state after package initialisation (the vectors registered, the     *)
(* ticker goroutine started) and after main has installed the middleware.  *)
(***************************************************************************)
InitSystem(arg) ==
    /\ optsArg = arg
    /\ promOpts = PromMiddlewareOpts(arg)
    /\ uptime = NoChildren
    /\ reqCount = NoChildren
    /\ reqDuration = NoChildren
    /\ reqSizeBytes = NoChildren
    /\ respSizeBytes = NoChildren
    /\ now = 0
    /\ tickChan = 0
    /\ ticked = 0
    /\ pc = [r \in ReqIds |-> "idle"]
    /\ request = [r \in ReqIds |-> 0]
    /\ start = [r \in ReqIds |-> 0]
    /\ clock = [r \in ReqIds |-> 0]
    /\ writer = [r \in ReqIds |-> [status |-> 200, size |-> -1]]
    /\ lvs = [r \in ReqIds |-> <<>>]
    /\ ok = [r \in ReqIds |-> FALSE]
    /\ respSize = [r \in ReqIds |-> 0]
    /\ body = [r \in ReqIds |-> NoBody]
    /\ fault = [r \in ReqIds |-> NoFault]

Init ==
    /\ \E arg \in OptsArgs : InitSystem(arg)
    /\ call = NoCall

(***************************************************************************)
(* The ticker of time.Tick(time.Second): every interval the runtime sends  *)
(* a tick on a channel of capacity 1 and drops it when the channel is full.*)
(***************************************************************************)
TimerFire ==
    /\ now < MaxTicks
    /\ now' = now + 1
    /\ tickChan' = 1
    /\ UNCHANGED <<cfgVars, uptime, reqSeries, ticked, ctxVars, srvVars, call>>

\* One iteration of the loop of recordUpTime.
recordUpTime ==
    /\ tickChan = 1
    /\ tickChan' = 0
    /\ uptime' = CounterInc(uptime, <<>>)
    /\ ticked' = ticked + 1
    /\ UNCHANGED <<cfgVars, reqSeries, now, ctxVars, srvVars, call>>

(***************************************************************************)
(* The handler returned by PromMiddleware, one action per step.            *)
(***************************************************************************)
\* gin dispatches a request to the handler; requests are numbered in the
\* order of their arrival.
Arrive(r, q) ==
    /\ pc[r] = "idle"
    /\ IF r = 1 THEN TRUE ELSE pc[r - 1] # "idle"
    /\ pc' = [pc EXCEPT ![r] = "START"]
    /\ request' = [request EXCEPT ![r] = q]
    /\ UNCHANGED <<cfgVars, uptime, reqSeries, tickVars, start, clock, writer, lvs, ok,
                   respSize, srvVars, call>>

StartCountsEarly(r) ==
    /\ pc[r] = "START"
    /\ start' = [start EXCEPT ![r] = clock[r]]
    /\ pc' = [pc EXCEPT ![r] = "DOWNSTREAM"]
    /\ reqCount' = CounterInc(reqCount,
                              <<Empty,
                                EndpointLabelMapping(promOpts.EndpointLabelMappingFn,
                                                     Requests[request[r]]),
                                Requests[request[r]].Method>>)
    /\ UNCHANGED <<cfgVars, uptime, reqDuration, reqSizeBytes, respSizeBytes,
                   tickVars, request, clock, writer, lvs, ok, respSize, srvVars, call>>

\* start := time.Now(); c.Next() is entered.
Start(r) ==
    /\ pc[r] = "START"
    /\ start' = [start EXCEPT ![r] = clock[r]]
    /\ pc' = [pc EXCEPT ![r] = "DOWNSTREAM"]
    /\ UNCHANGED <<cfgVars, uptime, reqSeries, tickVars, request, clock, writer, lvs, ok,
                   respSize, srvVars, call>>

GatherAfterOwnRecord ==
    << [uptime |-> uptime,
        reqCount |-> CounterInc(reqCount, <<Itoa(200), PathMetrics, GET>>),
        reqDuration |-> reqDuration,
        reqSizeBytes |-> reqSizeBytes, respSizeBytes |-> respSizeBytes] >>

\* The handler of PromHandler: handler.ServeHTTP(c.Writer, c.Request) gathers
\* the registered series and writes them; it updates none of them.  The
\* gathering is taken as one reading of all five.
Gather ==
    << [uptime |-> uptime, reqCount |-> reqCount, reqDuration |-> reqDuration,
        reqSizeBytes |-> reqSizeBytes, respSizeBytes |-> respSizeBytes] >>

DownstreamReturnCountsScrape(r) ==
    /\ pc[r] = "DOWNSTREAM"
    /\ \E o \in Outcomes(Requests[request[r]]) :
         /\ writer' = [writer EXCEPT ![r] = [status |-> o.status, size |-> o.size]]
         /\ clock' = [clock EXCEPT ![r] = @ + o.elapsed]
    /\ body' = IF IsScrape(Requests[request[r]])
               THEN [body EXCEPT ![r] = Gather]
               ELSE body
    /\ reqCount' = IF IsScrape(Requests[request[r]])
                   THEN CounterInc(reqCount, <<Itoa(200), PathMetrics, GET>>)
                   ELSE reqCount
    /\ pc' = [pc EXCEPT ![r] = "COMPLETE"]
    /\ UNCHANGED <<cfgVars, uptime, reqDuration, reqSizeBytes, respSizeBytes,
                   tickVars, request, start, lvs, ok, respSize, fault, call>>

\* c.Next() returns: the downstream handlers have left an outcome in c.Writer
\* (for a scrape, the handler of PromHandler has written the exposition).
DownstreamReturn(r) ==
    /\ pc[r] = "DOWNSTREAM"
    /\ \E o \in Outcomes(Requests[request[r]]) :
         /\ writer' = [writer EXCEPT ![r] = [status |-> o.status, size |-> o.size]]
         /\ clock' = [clock EXCEPT ![r] = @ + o.elapsed]
    /\ body' = IF IsScrape(Requests[request[r]])
               THEN [body EXCEPT ![r] = Gather]
               ELSE body
    /\ pc' = [pc EXCEPT ![r] = "COMPLETE"]
    /\ UNCHANGED <<cfgVars, uptime, reqSeries, tickVars, request, start, lvs, ok,
                   respSize, fault, call>>

DownstreamPanicDeferredRecord(r) ==
    /\ pc[r] = "DOWNSTREAM"
    /\ fault' = [fault EXCEPT ![r] = Append(@, "downstream")]
    /\ pc' = [pc EXCEPT ![r] = "PANICKED"]
    /\ reqCount' = CounterInc(reqCount,
                              <<Itoa(writer[r].status),
                                EndpointLabelMapping(promOpts.EndpointLabelMappingFn,
                                                     Requests[request[r]]),
                                Requests[request[r]].Method>>)
    /\ UNCHANGED <<cfgVars, uptime, reqDuration, reqSizeBytes, respSizeBytes,
                   tickVars, request, start, clock, writer, lvs, ok, respSize, body,
                   call>>

\* c.Next() panics: the handler has no deferred call and no recover, so the
\* panic leaves it at line 192 and nothing after that line runs.
DownstreamPanic(r) ==
    /\ pc[r] = "DOWNSTREAM"
    /\ fault' = [fault EXCEPT ![r] = Append(@, "downstream")]
    /\ pc' = [pc EXCEPT ![r] = "PANICKED"]
    /\ UNCHANGED <<cfgVars, uptime, reqSeries, tickVars, request, start, clock,
                   writer, lvs, ok, respSize, body, call>>

\* respSize := c.Writer.Size(); if respSize < 0 { respSize = 0 }
NormalizeRespSizeMissing(size) == size

NormalizeRespSize(size) == IF size < 0 THEN 0 ELSE size

\* ok := checkLabel(status, ...) && checkLabel(endpoint, ...) && checkLabel(method, ...)
LabelsOkAny(po, status, endpoint, method) ==
    \/ checkLabel(status, po.ExcludeRegexStatus)
    \/ checkLabel(endpoint, po.ExcludeRegexEndpoint)
    \/ checkLabel(method, po.ExcludeRegexMethod)

LabelsOkCrossed(po, status, endpoint, method) ==
    /\ checkLabel(status, po.ExcludeRegexMethod)
    /\ checkLabel(endpoint, po.ExcludeRegexEndpoint)
    /\ checkLabel(method, po.ExcludeRegexStatus)

LabelsOk(po, status, endpoint, method) ==
    /\ checkLabel(status, po.ExcludeRegexStatus)
    /\ checkLabel(endpoint, po.ExcludeRegexEndpoint)
    /\ checkLabel(method, po.ExcludeRegexMethod)

\* lvs := []string{status, endpoint, method}
LabelValuesSwapped(status, endpoint, method) == <<status, method, endpoint>>

LabelValues(status, endpoint, method) == <<status, endpoint, method>>

CompleteSkipsAborted(r) ==
    /\ pc[r] = "COMPLETE"
    /\ LET status == Itoa(writer[r].status)
           endpoint == EndpointLabelMapping(promOpts.EndpointLabelMappingFn,
                                            Requests[request[r]])
           method == Requests[request[r]].Method
           ok1 == /\ LabelsOk(promOpts, status, endpoint, method)
                  /\ writer[r].status < 400
       IN  /\ lvs' = [lvs EXCEPT ![r] = LabelValues(status, endpoint, method)]
           /\ ok' = [ok EXCEPT ![r] = ok1]
           /\ IF ok1
              THEN /\ respSize' = [respSize EXCEPT
                                     ![r] = NormalizeRespSize(writer[r].size)]
                   /\ pc' = [pc EXCEPT ![r] = "RECORD_count"]
              ELSE /\ respSize' = respSize
                   /\ pc' = [pc EXCEPT ![r] = "TERMINAL"]
    /\ UNCHANGED <<cfgVars, uptime, reqSeries, tickVars, request, start, clock, writer,
                   srvVars, call>>

\* The labels, the suppression check and the response size.
Complete(r) ==
    /\ pc[r] = "COMPLETE"
    /\ LET status == Itoa(writer[r].status)
           endpoint == EndpointLabelMapping(promOpts.EndpointLabelMappingFn,
                                            Requests[request[r]])
           method == Requests[request[r]].Method
           ok1 == LabelsOk(promOpts, status, endpoint, method)
       IN  /\ lvs' = [lvs EXCEPT ![r] = LabelValues(status, endpoint, method)]
           /\ ok' = [ok EXCEPT ![r] = ok1]
           /\ IF ok1
              THEN /\ respSize' = [respSize EXCEPT
                                     ![r] = NormalizeRespSize(writer[r].size)]
                   /\ pc' = [pc EXCEPT ![r] = "RECORD_count"]
              ELSE /\ respSize' = respSize
                   /\ pc' = [pc EXCEPT ![r] = "TERMINAL"]
    /\ UNCHANGED <<cfgVars, uptime, reqSeries, tickVars, request, start, clock, writer,
                   srvVars, call>>

IncReqCountSkipped(r) ==
    /\ pc[r] = "RECORD_count"
    /\ pc' = [pc EXCEPT ![r] = "RECORD_duration"]
    /\ UNCHANGED <<cfgVars, uptime, reqSeries, tickVars, request, start, clock,
                   writer, lvs, ok, respSize, srvVars, call>>

\* reqCount.WithLabelValues(lvs...).Inc()
IncReqCount(r) ==
    /\ pc[r] = "RECORD_count"
    /\ reqCount' = CounterInc(reqCount, lvs[r])
    /\ pc' = [pc EXCEPT ![r] = "RECORD_duration"]
    /\ UNCHANGED <<cfgVars, uptime, reqDuration, reqSizeBytes, respSizeBytes,
                   tickVars, request, start, clock, writer, lvs, ok, respSize, srvVars, call>>

\* reqDuration.WithLabelValues(lvs...).Observe(time.Since(start).Seconds())
ObserveDuration(r) ==
    /\ pc[r] = "RECORD_duration"
    /\ reqDuration' = Observe(reqDuration, lvs[r], clock[r] - start[r])
    /\ pc' = [pc EXCEPT ![r] = "RECORD_reqSize"]
    /\ UNCHANGED <<cfgVars, uptime, reqCount, reqSizeBytes, respSizeBytes,
                   tickVars, request, start, clock, writer, lvs, ok, respSize, srvVars, call>>

\* reqSizeBytes.WithLabelValues(lvs...).Observe(calcRequestSize(c.Request))
ObserveReqSize(r) ==
    /\ pc[r] = "RECORD_reqSize"
    /\ reqSizeBytes' = Observe(reqSizeBytes, lvs[r],
                               calcRequestSize(Requests[request[r]]).size)
    /\ pc' = [pc EXCEPT ![r] = "RECORD_respSize"]
    /\ UNCHANGED <<cfgVars, uptime, reqCount, reqDuration, respSizeBytes,
                   tickVars, request, start, clock, writer, lvs, ok, respSize, srvVars, call>>

\* respSizeBytes.WithLabelValues(lvs...).Observe(float64(respSize))
ObserveRespSize(r) ==
    /\ pc[r] = "RECORD_respSize"
    /\ respSizeBytes' = Observe(respSizeBytes, lvs[r], Float64(respSize[r]))
    /\ pc' = [pc EXCEPT ![r] = "TERMINAL"]
    /\ UNCHANGED <<cfgVars, uptime, reqCount, reqDuration, reqSizeBytes,
                   tickVars, request, start, clock, writer, lvs, ok, respSize, srvVars, call>>

Next ==
    \/ TimerFire
    \/ recordUpTime
    \/ \E r \in ReqIds, q \in AppRoutes : Arrive(r, q)
    \/ \E r \in ReqIds : Start(r)
    \/ \E r \in ReqIds : DownstreamReturn(r)
    \/ \E r \in ReqIds : Complete(r)
    \/ \E r \in ReqIds : IncReqCount(r)
    \/ \E r \in ReqIds : ObserveDuration(r)
    \/ \E r \in ReqIds : ObserveReqSize(r)
    \/ \E r \in ReqIds : ObserveRespSize(r)

Spec == Init /\ [][Next]_vars

(***************************************************************************)
(* The server as main wires it: every route, /metrics included, is         *)
(* registered after r.Use has installed the middleware, so scrapes pass    *)
(* through the handler too, and a downstream handler can panic.            *)
(***************************************************************************)
NextServer ==
    \/ \E r \in ReqIds, q \in DOMAIN Requests : Arrive(r, q)
    \/ \E r \in ReqIds : Start(r)
    \/ \E r \in ReqIds : DownstreamReturn(r)
    \/ \E r \in ReqIds : DownstreamPanic(r)
    \/ \E r \in ReqIds : Complete(r)
    \/ \E r \in ReqIds : IncReqCount(r)
    \/ \E r \in ReqIds : ObserveDuration(r)
    \/ \E r \in ReqIds : ObserveReqSize(r)
    \/ \E r \in ReqIds : ObserveRespSize(r)

SpecServer == Init /\ [][NextServer]_vars

(***************************************************************************)
(* The handlers of the application routes under fair scheduling: a handler *)
(* goroutine that can take its next step eventually takes it (the steps of *)
(* lines 191 to 216 block on nothing), and a downstream handling that can  *)
(* return eventually returns.  The fairness stated is the weakest that     *)
(* says so: while some handler can step, some handler eventually steps.    *)
(***************************************************************************)
HandlerStep(r) ==
    \/ Start(r)
    \/ DownstreamReturn(r)
    \/ Complete(r)
    \/ IncReqCount(r)
    \/ ObserveDuration(r)
    \/ ObserveReqSize(r)
    \/ ObserveRespSize(r)

NextHandlers ==
    \/ \E r \in ReqIds, q \in AppRoutes : Arrive(r, q)
    \/ \E r \in ReqIds : HandlerStep(r)

SpecLive ==
    Init /\ [][NextHandlers]_vars /\ WF_vars(\E r \in ReqIds : HandlerStep(r))

(***************************************************************************)
(* Single-function specifications: the arguments of one call are drawn in  *)
(* the initial state and the call is made in one step.                     *)
(***************************************************************************)
LabelInputs ==
    { Empty, Itoa(200), Itoa(400), Itoa(403), Itoa(4030), GET, POST,
      PathIndex, PathBad, PathApi }

PatternInputs ==
    { Empty, Pattern4xx, PatternStarFirst, PatternTrailingBackslash,
      PatternNestedStar, PatternBadPath, PatternAnything, POST, <<"4">>,
      <<"^", "$">> }

InitCheckLabel ==
    /\ InitSystem(NilPtr)
    /\ \E l \in LabelInputs, p \in PatternInputs :
         call = [fn |-> "checkLabel", label |-> l, pattern |-> p,
                 done |-> FALSE, out |-> FALSE]

CallCheckLabel ==
    /\ call.fn = "checkLabel"
    /\ ~call.done
    /\ call' = [call EXCEPT !.done = TRUE,
                            !.out = checkLabel(call.label, call.pattern)]
    /\ UNCHANGED <<cfgVars, uptime, reqSeries, tickVars, ctxVars, srvVars>>

SpecCheckLabel == InitCheckLabel /\ [][CallCheckLabel]_vars

ContentLengthInputs == {-1, 0, 5, MaxInt}

RequestInputs ==
    { HttpRequest(m, u, h, host, cl) :
        m \in {GET, POST},
        u \in {NilPtr, Ptr([Path |-> PathIndex])},
        h \in {<<>>, HeaderAccept, HeaderTwo},
        host \in {Empty, HostLocal},
        cl \in ContentLengthInputs }

InitCalcRequestSize ==
    /\ InitSystem(NilPtr)
    /\ \E q \in RequestInputs :
         call = [fn |-> "calcRequestSize", r |-> q, done |-> FALSE,
                 out |-> [panic |-> FALSE, size |-> 0]]

CallCalcRequestSize ==
    /\ call.fn = "calcRequestSize"
    /\ ~call.done
    /\ call' = [call EXCEPT !.done = TRUE, !.out = calcRequestSize(call.r)]
    /\ UNCHANGED <<cfgVars, uptime, reqSeries, tickVars, ctxVars, srvVars>>

SpecCalcRequestSize == InitCalcRequestSize /\ [][CallCalcRequestSize]_vars

(***************************************************************************)
(* Vocabulary of the properties.                                           *)
(***************************************************************************)
\* The request a handler invocation serves.
Req(r) == Requests[request[r]]

\* The decimal strings of the status codes, written out.
DecimalOfStatus ==
    (200 :> <<"2", "0", "0">>) @@ (400 :> <<"4", "0", "0">>)
        @@ (403 :> <<"4", "0", "3">>)

\* Requests whose downstream handling has completed.
Completed ==
    {r \in ReqIds : pc[r] \notin {"idle", "START", "DOWNSTREAM", "PANICKED"}}

\* The label tuple of a completed request: (status, endpoint, method).
ExpectedLabels(r) ==
    << DecimalOfStatus[writer[r].status],
       EndpointLabelMapping(promOpts.EndpointLabelMappingFn, Req(r)),
       Req(r).Method >>

\* Whether a pattern is configured, compiles and finds a match in the label.
MatchedBy(pattern, label) ==
    /\ pattern # Empty
    /\ LET m == regexpMatchString(pattern, label) IN ~m.err /\ m.matched

\* Whether some label of a completed request is matched by the pattern of
\* its dimension.
SuppressionMatches(r) ==
    \/ MatchedBy(promOpts.ExcludeRegexStatus, ExpectedLabels(r)[1])
    \/ MatchedBy(promOpts.ExcludeRegexEndpoint, ExpectedLabels(r)[2])
    \/ MatchedBy(promOpts.ExcludeRegexMethod, ExpectedLabels(r)[3])

NoSuppressionConfigured ==
    /\ promOpts.ExcludeRegexStatus = Empty
    /\ promOpts.ExcludeRegexEndpoint = Empty
    /\ promOpts.ExcludeRegexMethod = Empty

\* The unsuppressed requests that have passed a step of RECORD.
AfterCount == {"RECORD_duration", "RECORD_reqSize", "RECORD_respSize", "TERMINAL"}
AfterDuration == {"RECORD_reqSize", "RECORD_respSize", "TERMINAL"}
AfterReqSize == {"RECORD_respSize", "TERMINAL"}
AfterRespSize == {"TERMINAL"}
InRecord == {"RECORD_count", "RECORD_duration", "RECORD_reqSize", "RECORD_respSize"}

Passed(after) ==
    {r \in Completed : pc[r] \in after /\ ~SuppressionMatches(r)}

\* Every label tuple that a request of the model can have or a vector holds.
TupleUniverse ==
    {ExpectedLabels(r) : r \in Completed}
        \cup DOMAIN reqCount \cup DOMAIN reqDuration
        \cup DOMAIN reqSizeBytes \cup DOMAIN respSizeBytes

\* A counter vector changes by one increment of the child of t and nothing else.
OneIncrementAt(vec, vecNext, t) ==
    /\ DOMAIN vecNext = DOMAIN vec \cup {t}
    /\ vecNext[t] = CounterValue(vec, t) + 1
    /\ \A u \in DOMAIN vec \ {t} : vecNext[u] = vec[u]

\* An observation vector changes by one observation in the child of t and
\* nothing else.
OneObservationAt(vec, vecNext, t) ==
    /\ DOMAIN vecNext = DOMAIN vec \cup {t}
    /\ BagCardinality(vecNext[t]) = ObservationCount(vec, t) + 1
    /\ \A u \in DOMAIN vec \ {t} : vecNext[u] = vec[u]

(***************************************************************************)
(* C1: with no suppression pattern configured, every completed request is  *)
(* recorded: it is never skipped, and its four RECORD steps make exactly   *)
(* one increment of the count series and one observation in each of the    *)
(* duration, request-size and response-size series, each under the tuple   *)
(* (decimal status, mapped endpoint, method) of the request and changing   *)
(* no other sub-series; no other step of the request changes a series and  *)
(* TERMINAL is entered only from the last RECORD step.                     *)
(***************************************************************************)
RecordsOnce(r) ==
    LET t == ExpectedLabels(r) IN
    /\ pc[r] = "COMPLETE" => pc'[r] = "RECORD_count"
    /\ pc[r] = "RECORD_count" =>
         /\ pc'[r] = "RECORD_duration"
         /\ OneIncrementAt(reqCount, reqCount', t)
         /\ UNCHANGED <<reqDuration, reqSizeBytes, respSizeBytes>>
    /\ pc[r] = "RECORD_duration" =>
         /\ pc'[r] = "RECORD_reqSize"
         /\ OneObservationAt(reqDuration, reqDuration', t)
         /\ UNCHANGED <<reqCount, reqSizeBytes, respSizeBytes>>
    /\ pc[r] = "RECORD_reqSize" =>
         /\ pc'[r] = "RECORD_respSize"
         /\ OneObservationAt(reqSizeBytes, reqSizeBytes', t)
         /\ UNCHANGED <<reqCount, reqDuration, respSizeBytes>>
    /\ pc[r] = "RECORD_respSize" =>
         /\ pc'[r] = "TERMINAL"
         /\ OneObservationAt(respSizeBytes, respSizeBytes', t)
         /\ UNCHANGED <<reqCount, reqDuration, reqSizeBytes>>
    /\ pc[r] \notin InRecord => UNCHANGED reqSeries

C1_ExactlyOneUpdatePerSeries ==
    [][NoSuppressionConfigured =>
         \A r \in ReqIds : pc'[r] # pc[r] /\ r \in Completed => RecordsOnce(r)]_vars

C1_Witness ==
    /\ NoSuppressionConfigured
    /\ \E r \in ReqIds :
         /\ pc[r] = "TERMINAL"
         /\ CounterValue(reqCount, ExpectedLabels(r)) = 1
         /\ ObservationCount(reqDuration, ExpectedLabels(r)) = 1
         /\ ObservationCount(reqSizeBytes, ExpectedLabels(r)) = 1
         /\ ObservationCount(respSizeBytes, ExpectedLabels(r)) = 1

(***************************************************************************)
(* C2: a completed request with a label matched by the suppression pattern *)
(* of its dimension makes no registry update: each of its steps leaves the *)
(* four request series unchanged and takes it straight to TERMINAL, and no *)
(* series ever holds a sub-series for its label tuple.                     *)
(***************************************************************************)
\* No series holds a sub-series for the tuple of a suppressed request, which
\* is at COMPLETE or at TERMINAL.
SuppressedLeaveNoTrace ==
    \A r \in Completed :
      SuppressionMatches(r) =>
        /\ pc[r] \in {"COMPLETE", "TERMINAL"}
        /\ ExpectedLabels(r) \notin
             (DOMAIN reqCount \cup DOMAIN reqDuration
                \cup DOMAIN reqSizeBytes \cup DOMAIN respSizeBytes)

C2_SuppressedRequestUpdatesNothing ==
    /\ []SuppressedLeaveNoTrace
    /\ [][\A r \in Completed :
            pc'[r] # pc[r] /\ SuppressionMatches(r) =>
              pc'[r] = "TERMINAL" /\ UNCHANGED reqSeries]_vars

C2_Witness ==
    \E r \in Completed :
      /\ SuppressionMatches(r)
      /\ pc[r] = "TERMINAL"
      /\ MatchedBy(promOpts.ExcludeRegexStatus, ExpectedLabels(r)[1])
      /\ ~MatchedBy(promOpts.ExcludeRegexMethod, ExpectedLabels(r)[3])

(***************************************************************************)
(* C3: no update is lost under any interleaving.  The uptime counter       *)
(* equals the number of iterations the ticker loop has made, and for every *)
(* label tuple with no request inside RECORD, the count sub-series equals  *)
(* the number N of unsuppressed requests with that tuple that have reached *)
(* TERMINAL and each of the three observation series holds N observations. *)
(***************************************************************************)
TerminatedWith(t) == {r \in Passed(AfterRespSize) : ExpectedLabels(r) = t}

C3_NoLostUpdate ==
    /\ CounterValue(uptime, <<>>) = ticked
    /\ \A t \in TupleUniverse :
         (\A r \in Completed : pc[r] \in InRecord => ExpectedLabels(r) # t) =>
           LET N == Cardinality(TerminatedWith(t)) IN
           /\ CounterValue(reqCount, t) = N
           /\ ObservationCount(reqDuration, t) = N
           /\ ObservationCount(reqSizeBytes, t) = N
           /\ ObservationCount(respSizeBytes, t) = N

C3_Witness ==
    /\ ticked = 2
    /\ CounterValue(uptime, <<>>) = 2
    /\ \E t \in TupleUniverse :
         /\ Cardinality(TerminatedWith(t)) = 2
         /\ CounterValue(reqCount, t) = 2
         /\ ObservationCount(respSizeBytes, t) = 2

(***************************************************************************)
(* C4 (as claimed): the uptime counter counts every ticker interval: when  *)
(* no tick is waiting to be received, its value is the number of intervals *)
(* that have elapsed.                                                      *)
(***************************************************************************)
C4_UptimeCountsEveryInterval ==
    tickChan = 0 => CounterValue(uptime, <<>>) = now

(***************************************************************************)
(* C5: the response-size series never holds a negative value, and for each *)
(* label tuple its observations are exactly those of the recorded requests *)
(* with that tuple: 0 for a reported size <= 0, the reported size for a    *)
(* positive one.                                                           *)
(***************************************************************************)
ExpectedRespSize(r) == IF writer[r].size <= 0 THEN 0 ELSE writer[r].size

C5_ResponseSizeNeverNegative ==
    \A t \in TupleUniverse :
      LET obs == Observations(respSizeBytes, t)
          recorded == {r \in Passed(AfterRespSize) : ExpectedLabels(r) = t}
      IN  /\ \A v \in BagToSet(obs) : v >= 0
          /\ \A v \in BagToSet(obs) \cup {ExpectedRespSize(r) : r \in recorded} :
               CopiesIn(v, obs) =
                 Cardinality({r \in recorded : ExpectedRespSize(r) = v})

C5_Witness ==
    \E r \in Passed(AfterRespSize), q \in Passed(AfterRespSize) :
      /\ writer[r].size = -1
      /\ CopiesIn(0, Observations(respSizeBytes, ExpectedLabels(r))) >= 1
      /\ writer[q].size = 5
      /\ CopiesIn(5, Observations(respSizeBytes, ExpectedLabels(q))) >= 1

(***************************************************************************)
(* C6: checkLabel with the empty pattern passes for every label value, the *)
(* empty string included.                                                  *)
(***************************************************************************)
C6_EmptyPatternNeverSuppresses ==
    call.fn = "checkLabel" /\ call.done /\ call.pattern = Empty =>
      call.out = TRUE

C6_Witness ==
    /\ call.fn = "checkLabel"
    /\ call.done
    /\ call.pattern = Empty
    /\ call.label = Empty
    /\ call.out = TRUE

(***************************************************************************)
(* C7: checkLabel with a pattern that fails to compile passes for every    *)
(* label value, which is the result it gives for the empty pattern.        *)
(***************************************************************************)
C7_InvalidPatternFailsOpen ==
    call.fn = "checkLabel" /\ call.done /\ regexpCompile(call.pattern).err =>
      /\ call.out = TRUE
      /\ call.out = checkLabel(call.label, Empty)

C7_Witness ==
    /\ call.fn = "checkLabel"
    /\ call.done
    /\ call.pattern = PatternStarFirst
    /\ call.label = Itoa(403)
    /\ call.out = TRUE

(***************************************************************************)
(* C8 (as claimed): calcRequestSize returns a value >= 0 for every request *)
(* for which it returns.                                                   *)
(***************************************************************************)
C8_RequestSizeNonNegative ==
    call.fn = "calcRequestSize" /\ call.done /\ ~call.out.panic =>
      call.out.size >= 0

(***************************************************************************)
(* C9: the count series is keyed by the label tuple under equality of all  *)
(* three strings: its sub-series are exactly the distinct tuples of the    *)
(* recorded requests, and each counts the requests whose status, endpoint  *)
(* and method all equal its own, so requests with equal tuples share one   *)
(* sub-series and requests that differ in any position never do.           *)
(***************************************************************************)
SameTuple(a, b) == a[1] = b[1] /\ a[2] = b[2] /\ a[3] = b[3]

C9_KeyedByTupleEquality ==
    /\ DOMAIN reqCount = {ExpectedLabels(r) : r \in Passed(AfterCount)}
    /\ \A t \in DOMAIN reqCount :
         reqCount[t] =
           Cardinality({r \in Passed(AfterCount) : SameTuple(ExpectedLabels(r), t)})

C9_Witness ==
    \E r1, r2 \in Passed(AfterCount) :
      /\ r1 # r2
      /\ SameTuple(ExpectedLabels(r1), ExpectedLabels(r2))
      /\ DOMAIN reqCount = {ExpectedLabels(r1)}
      /\ reqCount[ExpectedLabels(r1)] = 2

(***************************************************************************)
(* C10: a middleware set up with nil options, or with options whose        *)
(* endpoint-mapping function is unset, labels every request with its raw   *)
(* request path; set up with nil options (no pattern set) it suppresses no *)
(* request.                                                                *)
(***************************************************************************)
MappingUnset ==
    IF optsArg = NilPtr THEN TRUE
    ELSE Deref(optsArg).EndpointLabelMappingFn = Nil

C10_DefaultsWhenUnconfigured ==
    /\ MappingUnset =>
         \A r \in Completed :
           pc[r] # "COMPLETE" => lvs[r][2] = Deref(Req(r).URL).Path
    /\ optsArg = NilPtr =>
         /\ NoSuppressionConfigured
         /\ \A r \in Completed : pc[r] # "COMPLETE" => ok[r]

C10_Witness ==
    /\ optsArg = NilPtr
    /\ \E r \in Completed :
         /\ pc[r] = "TERMINAL"
         /\ ok[r]
         /\ lvs[r][2] = PathBad
         /\ CounterValue(reqCount, lvs[r]) = 1


(***************************************************************************)
(* C11: a request whose downstream handling panics is not recorded: it     *)
(* stops at the call of c.Next() carrying the downstream panic alone, its  *)
(* labels are never computed, and in every state each sub-series of the    *)
(* four request series holds exactly the updates of the requests whose     *)
(* downstream handling returned, so requests served around a panicked one  *)
(* are recorded in full.                                                   *)
(***************************************************************************)
Panicked == {r \in ReqIds : pc[r] = "PANICKED"}

RecordedWith(after, t) == {r \in Passed(after) : ExpectedLabels(r) = t}

\* The requests the handler has decided to record under t and that have
\* passed a step of RECORD.
UpdatesMade(after, t) ==
    {r \in ReqIds : pc[r] \in after /\ ok[r] /\ lvs[r] = t}

C11_FaultSkipsRecording ==
    /\ \A r \in Panicked : fault[r] = <<"downstream">> /\ lvs[r] = <<>> /\ ~ok[r]
    /\ \A r \in ReqIds \ Panicked : fault[r] = NoFault
    /\ \A t \in TupleUniverse :
         /\ CounterValue(reqCount, t) = Cardinality(UpdatesMade(AfterCount, t))
         /\ ObservationCount(reqDuration, t)
              = Cardinality(UpdatesMade(AfterDuration, t))
         /\ ObservationCount(reqSizeBytes, t)
              = Cardinality(UpdatesMade(AfterReqSize, t))
         /\ ObservationCount(respSizeBytes, t)
              = Cardinality(UpdatesMade(AfterRespSize, t))

C11_Witness ==
    \E r1, r2 \in ReqIds :
      /\ r1 < r2
      /\ pc[r1] = "PANICKED"
      /\ pc[r2] = "TERMINAL"
      /\ ~SuppressionMatches(r2)
      /\ CounterValue(reqCount, ExpectedLabels(r2)) = 1
      /\ ObservationCount(respSizeBytes, ExpectedLabels(r2)) = 1

(***************************************************************************)
(* C12: every started request whose downstream handling returns reaches    *)
(* TERMINAL, a request aborted with a 4xx status like any other; at        *)
(* TERMINAL a request that is not suppressed has its labels computed from  *)
(* the status the writer reported when c.Next() returned and every series  *)
(* holds, under that tuple, one update for each such request.              *)
(***************************************************************************)
Aborted(r) == writer[r].status >= 400

RecordedOnceAtTerminal ==
    \A r \in Completed :
      pc[r] = "TERMINAL" /\ ~SuppressionMatches(r) =>
        LET t == ExpectedLabels(r) IN
        /\ lvs[r] = t
        /\ CounterValue(reqCount, t) = Cardinality(RecordedWith(AfterCount, t))
        /\ ObservationCount(reqDuration, t)
             = Cardinality(RecordedWith(AfterDuration, t))
        /\ ObservationCount(reqSizeBytes, t)
             = Cardinality(RecordedWith(AfterReqSize, t))
        /\ ObservationCount(respSizeBytes, t)
             = Cardinality(RecordedWith(AfterRespSize, t))

C12_ReturningRequestTerminates ==
    /\ <>[](\A r \in ReqIds : pc[r] \in {"idle", "TERMINAL"})
    /\ []RecordedOnceAtTerminal

C12_Witness ==
    \E r \in Completed :
      /\ Aborted(r)
      /\ writer[r].size = -1
      /\ pc[r] = "TERMINAL"
      /\ ~SuppressionMatches(r)
      /\ lvs[r][1] = <<"4", "0", "3">>
      /\ CounterValue(reqCount, lvs[r]) = 1
      /\ ObservationCount(respSizeBytes, lvs[r]) = 1

(***************************************************************************)
(* C13, as stated: no step of the handling of a scrape request changes the *)
(* value of a series.  It fails: /metrics is registered behind the         *)
(* middleware (installed with nil options, as main does), whose RECORD     *)
(* steps record the scrape itself.                                         *)
(***************************************************************************)
\* Request r, a scrape, takes a step.
ScrapeStep(r) ==
    IF pc'[r] = pc[r] \/ request'[r] = 0 THEN FALSE
    ELSE IsScrape(Requests[request'[r]])

C13_ScrapeHandlingChangesNoSeries ==
    [][\A r \in ReqIds :
         optsArg = NilPtr /\ ScrapeStep(r) => UNCHANGED <<uptime, reqSeries>>]_vars

(***************************************************************************)
(* C13, amended: the exposition handler is read-only.  The step in which   *)
(* the handler of PromHandler serves a scrape writes the exposition and   *)
(* changes none of the five series; the only steps of a scrape that change *)
(* a series are the RECORD steps of the middleware around it.              *)
(***************************************************************************)
C13_ExpositionHandlerReadOnly ==
    [][\A r \in ReqIds :
         ScrapeStep(r) /\ pc[r] \notin InRecord =>
           /\ UNCHANGED <<uptime, reqSeries>>
           /\ pc'[r] = "COMPLETE" => body'[r] # NoBody]_vars

C13_Witness ==
    \E r \in Completed :
      /\ IsScrape(Req(r))
      /\ pc[r] = "COMPLETE"
      /\ body[r] # NoBody
      /\ DOMAIN reqCount # {}
      /\ body[r][1].reqCount = reqCount
      /\ body[r][1].respSizeBytes = respSizeBytes

(***************************************************************************)
(* C14: a handler invocation moves only forward through START, DOWNSTREAM, *)
(* COMPLETE, the RECORD steps and TERMINAL (so c.Next() is entered once    *)
(* per request, by the one step from START to DOWNSTREAM), and the request *)
(* series change only in a RECORD step of some request, after its          *)
(* downstream handling has returned: a step of a request in START or       *)
(* DOWNSTREAM performs no registry operation, and so takes no lock of the  *)
(* registry.                                                               *)
(***************************************************************************)
HandlerOrder ==
    { <<"idle", "START">>, <<"START", "DOWNSTREAM">>, <<"DOWNSTREAM", "COMPLETE">>,
      <<"COMPLETE", "RECORD_count">>, <<"COMPLETE", "TERMINAL">>,
      <<"RECORD_count", "RECORD_duration">>, <<"RECORD_duration", "RECORD_reqSize">>,
      <<"RECORD_reqSize", "RECORD_respSize">>, <<"RECORD_respSize", "TERMINAL">> }

C14_UpdatesOnlyAfterDownstream ==
    [][/\ \A r \in ReqIds :
            /\ pc'[r] # pc[r] => <<pc[r], pc'[r]>> \in HandlerOrder
            /\ pc[r] \in {"idle", "START", "DOWNSTREAM"} /\ pc'[r] # pc[r] =>
                 UNCHANGED <<uptime, reqSeries>>
       /\ reqSeries' # reqSeries =>
            \E r \in ReqIds : pc[r] \in InRecord /\ pc'[r] # pc[r]]_vars

C14_Witness ==
    \E r1, r2 \in ReqIds :
      /\ pc[r1] = "TERMINAL"
      /\ ok[r1]
      /\ ObservationCount(respSizeBytes, lvs[r1]) >= 1
      /\ pc[r2] = "DOWNSTREAM"

(***************************************************************************)
(* C15: a request is recorded if and only if each of its three label       *)
(* values passes the check against the pattern of its own dimension: the   *)
(* pattern is empty, or does not compile, or finds no match in the value.  *)
(* The pattern of one dimension is not applied to the value of another.    *)
(***************************************************************************)
Passes(pattern, label) ==
    \/ pattern = Empty
    \/ LET m == regexpMatchString(pattern, label) IN m.err \/ ~m.matched

PassesOwnDimension(r) ==
    /\ Passes(promOpts.ExcludeRegexStatus, ExpectedLabels(r)[1])
    /\ Passes(promOpts.ExcludeRegexEndpoint, ExpectedLabels(r)[2])
    /\ Passes(promOpts.ExcludeRegexMethod, ExpectedLabels(r)[3])

C15_RecordedIffOwnDimensionPasses ==
    \A r \in Completed :
      /\ pc[r] # "COMPLETE" => (ok[r] <=> PassesOwnDimension(r))
      /\ pc[r] \in InRecord => PassesOwnDimension(r)
      /\ pc[r] = "TERMINAL" =>
           (PassesOwnDimension(r) <=>
              /\ CounterValue(reqCount, ExpectedLabels(r)) >= 1
              /\ ObservationCount(reqDuration, ExpectedLabels(r)) >= 1
              /\ ObservationCount(reqSizeBytes, ExpectedLabels(r)) >= 1
              /\ ObservationCount(respSizeBytes, ExpectedLabels(r)) >= 1)

\* A recorded request whose status would be matched by the pattern configured
\* for the method.
C15_Witness ==
    \E r \in Completed :
      /\ pc[r] = "TERMINAL"
      /\ promOpts.ExcludeRegexMethod # Empty
      /\ regexpMatchString(promOpts.ExcludeRegexMethod, ExpectedLabels(r)[1]).matched
      /\ PassesOwnDimension(r)
      /\ CounterValue(reqCount, ExpectedLabels(r)) = 1

(***************************************************************************)
(* C16 (as claimed): for a request whose URL is present, calcRequestSize   *)
(* returns the length of the method plus the length of the protocol plus   *)
(* the lengths of all header names and values plus the length of the host  *)
(* plus the declared content length unless that is -1; the URL is not part *)
(* of the sum.                                                             *)
(***************************************************************************)
RequestSizeSum(q) ==
    Len(q.Method) + Len(q.Proto) + HeaderSize(q.Header) + Len(q.Host)
      + (IF q.ContentLength = -1 THEN 0 ELSE q.ContentLength)

C16_RequestSizeIsSumWithoutURL ==
    call.fn = "calcRequestSize" /\ call.done /\ call.r.URL # NilPtr =>
      /\ ~call.out.panic
      /\ call.out.size = RequestSizeSum(call.r)

(***************************************************************************)
(* C17: the five series exist in every state, and across every step no     *)
(* sub-series is removed or reset: the uptime counter and each count       *)
(* sub-series never decrease, and each sub-series of observations keeps    *)
(* every observation it holds.                                             *)
(***************************************************************************)
CounterKept(vec, vecNext) ==
    /\ DOMAIN vec \subseteq DOMAIN vecNext
    /\ \A t \in DOMAIN vec : vecNext[t] >= vec[t]

ObservationsKept(vec, vecNext) ==
    /\ DOMAIN vec \subseteq DOMAIN vecNext
    /\ \A t \in DOMAIN vec :
         /\ vec[t] \sqsubseteq vecNext[t]
         /\ BagCardinality(vecNext[t]) >= BagCardinality(vec[t])

C17_SeriesNeverRemovedOrReset ==
    [][/\ CounterKept(uptime, uptime')
       /\ CounterKept(reqCount, reqCount')
       /\ ObservationsKept(reqDuration, reqDuration')
       /\ ObservationsKept(reqSizeBytes, reqSizeBytes')
       /\ ObservationsKept(respSizeBytes, respSizeBytes')]_vars

C17_Witness ==
    /\ CounterValue(uptime, <<>>) >= 1
    /\ Cardinality(DOMAIN reqCount) = 2
    /\ Cardinality(DOMAIN respSizeBytes) = 2
    /\ \E t \in DOMAIN reqDuration : ObservationCount(reqDuration, t) = 1

(***************************************************************************)
(* C18: for every label tuple, in every state, the count is at least the   *)
(* number of duration observations, which is at least the number of        *)
(* request-size observations, which is at least the number of              *)
(* response-size observations; the four are equal whenever no request is   *)
(* inside its RECORD steps (the witness is a scrape that gathered unequal  *)
(* numbers while a request was inside them).                               *)
(***************************************************************************)
UpdateOrderHolds(count, duration, reqSize, respSz, t) ==
    /\ CounterValue(count, t) >= ObservationCount(duration, t)
    /\ ObservationCount(duration, t) >= ObservationCount(reqSize, t)
    /\ ObservationCount(reqSize, t) >= ObservationCount(respSz, t)

C18_CountLeadsObservations ==
    \A t \in TupleUniverse :
         /\ UpdateOrderHolds(reqCount, reqDuration, reqSizeBytes, respSizeBytes, t)
         /\ (\A r \in ReqIds : pc[r] \notin InRecord) =>
              /\ CounterValue(reqCount, t) = ObservationCount(reqDuration, t)
              /\ CounterValue(reqCount, t) = ObservationCount(reqSizeBytes, t)
              /\ CounterValue(reqCount, t) = ObservationCount(respSizeBytes, t)

\* A scrape has gathered a tuple's series while a request was inside RECORD,
\* and its exposition shows a count above the number of observations.
C18_Witness ==
    \E r \in ReqIds :
      /\ body[r] # NoBody
      /\ \E t \in DOMAIN body[r][1].reqCount :
           /\ CounterValue(body[r][1].reqCount, t) = 1
           /\ ObservationCount(body[r][1].reqDuration, t) = 1
           /\ ObservationCount(body[r][1].respSizeBytes, t) = 0

(***************************************************************************)
(* C19: in the program as wired (nil options), a scrape is recorded under  *)
(* ("200", "/metrics", "GET"), and what it wrote does not include its own  *)
(* increment: the count it shows for that tuple is the number of other     *)
(* scrapes that had incremented it.  With sequential scrapes (every       *)
(* earlier request at TERMINAL, no later one arrived) the n-th scrape      *)
(* shows n-1, and the first scrape shows no such sub-series.               *)
(***************************************************************************)
ScrapeTuple == << <<"2", "0", "0">>, PathMetrics, GET >>

ScrapeAt(r, where) ==
    IF request[r] = 0 THEN FALSE
    ELSE pc[r] = where /\ IsScrape(Requests[request[r]])

OtherScrapesCounted(r) ==
    {r2 \in ReqIds \ {r} :
       IF request[r2] = 0 THEN FALSE
       ELSE IsScrape(Requests[request[r2]]) /\ pc[r2] \in AfterCount}

EarlierScrapes(r) ==
    {r2 \in 1..(r - 1) : IsScrape(Requests[request[r2]])}

C19_ScrapeOmitsOwnIncrement ==
    [][optsArg = NilPtr =>
         \A r \in ReqIds :
           /\ ScrapeAt(r, "DOWNSTREAM") /\ pc'[r] = "COMPLETE" =>
                LET seen == body'[r][1].reqCount IN
                /\ CounterValue(seen, ScrapeTuple) = Cardinality(OtherScrapesCounted(r))
                /\ (\A r2 \in ReqIds \ {r} :
                      pc[r2] = IF r2 < r THEN "TERMINAL" ELSE "idle") =>
                     /\ CounterValue(seen, ScrapeTuple) = Cardinality(EarlierScrapes(r))
                     /\ EarlierScrapes(r) = {} => ScrapeTuple \notin DOMAIN seen
           /\ ScrapeAt(r, "COMPLETE") /\ pc'[r] # pc[r] =>
                lvs'[r] = ScrapeTuple /\ pc'[r] = "RECORD_count"
           /\ ScrapeAt(r, "RECORD_count") /\ pc'[r] # pc[r] =>
                reqCount'[ScrapeTuple] = CounterValue(reqCount, ScrapeTuple) + 1]_vars

C19_Witness ==
    \E r1, r2 \in ReqIds :
      /\ optsArg = NilPtr
      /\ r1 < r2
      /\ ScrapeAt(r1, "TERMINAL")
      /\ ScrapeAt(r2, "TERMINAL")
      /\ ScrapeTuple \notin DOMAIN body[r1][1].reqCount
      /\ CounterValue(body[r2][1].reqCount, ScrapeTuple) = 1
      /\ CounterValue(reqCount, ScrapeTuple) = 2

====
